---- MODULE Spec2Model ----
(***************************************************************************)
(* node-xml-parser: the XMLNode tree, the XMLParser scanner and the        *)
(* XMLBuilder of src/index.ts, with the helpers of util.ts.                *)
(*                                                                         *)
(* A JavaScript string is a sequence of one-character strings; a single    *)
(* character is a string of length one, the empty string is << >>.  The    *)
(* cursor i is zero-based as in the source: xml[i] there is xml[i + 1]     *)
(* here.  Objects the parser shares by reference (the nodes on the stack   *)
(* are also children of their parents) live in a heap, a sequence of node  *)
(* records addressed by their index; children hold heap indices.           *)
(***************************************************************************)
EXTENDS Integers, Sequences, FiniteSets, TLC

VARIABLES
    xml,        \* XMLParser.xml
    i,          \* XMLParser.i
    nodes,      \* XMLParser.nodes: the open-node stack, heap indices
    heap,       \* the XMLNode objects created so far
    pc,         \* where the parser's control is
    err,        \* the error parse() threw, "none" while there is none
    result,     \* the heap index parse() returned, 0 while there is none
    tag,        \* local of matchNodeStartTag / matchNodeEndTag
    attributes, \* local of matchNodeStartTag / matchAttributes
    nextChar,   \* local of matchNodeStartTag
    key,        \* local of matchAttribute
    quote,      \* local of matchAttribute
    call,       \* the entry point that made the parser, or "buildXML"
    ret,        \* what the entry point returned ("pending" until it does)
    root,       \* the tree handed to buildXML
    options,    \* the XMLBuilderOptions handed to buildXML
    origin      \* where xml is from: "input", "buildXML", "document", "none"

vars == <<xml, i, nodes, heap, pc, err, result, tag, attributes, nextChar,
          key, quote, call, ret, root, options, origin>>

----------------------------------------------------------------------------
(* util.ts *)

whitespace == << <<" ">>, <<"\t">>, <<"\n">>, <<"\r">> >>

isWhitespace(char) == \E k \in 1..Len(whitespace) : whitespace[k] = char

\* [ ...list ].includes(c), the loop "for (const option of list) if (c == option)"
OneOf(c, list) == \E k \in 1..Len(list) : list[k] = c

----------------------------------------------------------------------------
(* XMLNode *)

TextTag == <<"@", "t", "e", "x", "t">>
DataKey == <<"d", "a", "t", "a">>

\* a map that takes every entry as a new one
MapSetAppend(map, k, v) == Append(map, [key |-> k, value |-> v])

\* Map.prototype.set: an existing key keeps its place and takes the value
MapSet(map, k, v) ==
    IF \E n \in 1..Len(map) : map[n].key = k
    THEN [n \in 1..Len(map) |->
            IF map[n].key = k THEN [key |-> k, value |-> v] ELSE map[n]]
    ELSE Append(map, [key |-> k, value |-> v])

\* Map.prototype.get; a missing key is undefined, written "undefined" by a template
MapGet(map, k) ==
    IF \E n \in 1..Len(map) : map[n].key = k
    THEN map[CHOOSE n \in 1..Len(map) : map[n].key = k].value
    ELSE <<"u", "n", "d", "e", "f", "i", "n", "e", "d">>

createRaw(t, attrs) == [tag |-> t, attributes |-> attrs, children |-> <<>>]

\* new XMLNode('@text', { data: text }), and the wrapping of a string child
TextNode(text) == createRaw(TextTag, <<[key |-> DataKey, value |-> text]>>)

\* new XMLNode(tag, attributes, children), the children already nodes
XMLNode(t, attrs, kids) == [tag |-> t, attributes |-> attrs, children |-> kids]

\* String(node): XMLNode defines no toString, so Object.prototype.toString
ObjectString ==
    <<"[", "o", "b", "j", "e", "c", "t", " ", "O", "b", "j", "e", "c", "t",
      "]">>

\* Array.prototype.filter(child => child.tag == '@text'), from the k-th child
RECURSIVE filterText(_, _)
filterText(kids, k) ==
    IF k > Len(kids) THEN <<>>
    ELSE (IF kids[k].tag = TextTag THEN <<kids[k]>> ELSE <<>>)
         \o filterText(kids, k + 1)

\* Array.prototype.join on an array of nodes: the string of each element,
\* the separator between two of them
RECURSIVE join(_, _, _)
join(list, sep, k) ==
    IF k > Len(list) THEN <<>>
    ELSE (IF k > 1 THEN sep ELSE <<>>) \o ObjectString \o join(list, sep, k + 1)

\* XMLNode.innerText
innerText(node) == join(filterText(node.children, 1), <<" ">>, 1)

\* XMLNode.dfs: the calls it makes, in order, each with its node and depth
RECURSIVE dfs(_, _)
RECURSIVE dfsChildren(_, _, _)
dfsChildren(kids, k, depth) ==
    IF k > Len(kids) THEN <<>>
    ELSE dfs(kids[k], depth + 1) \o dfsChildren(kids, k + 1, depth)

\* a traversal that leaves a childless node without the second callback
dfsSkipsLeafAfter(node, depth) ==
    <<[cb |-> "before", node |-> node, depth |-> depth]>>
    \o dfsChildren(node.children, 1, depth)
    \o (IF node.children = <<>> THEN <<>>
        ELSE <<[cb |-> "after", node |-> node, depth |-> depth]>>)

dfs(node, depth) ==
    <<[cb |-> "before", node |-> node, depth |-> depth]>>
    \o dfsChildren(node.children, 1, depth)
    \o <<[cb |-> "after", node |-> node, depth |-> depth]>>

----------------------------------------------------------------------------
(* XMLBuilder *)

\* the constructor's defaults, spread under the caller's options
DefaultOptions ==
    [indentationSize |-> 1, indentationType |-> "tabs",
     seperator |-> <<"\n">>, enableSelfClosingTags |-> TRUE]

RECURSIVE Repeat(_, _)
Repeat(str, n) == IF n <= 0 THEN <<>> ELSE str \o Repeat(str, n - 1)

indentation(opts, depth) ==
    Repeat(IF opts.indentationType = "tabs" THEN <<"\t">> ELSE <<" ">>,
           opts.indentationSize * depth)

\* the text of the attribute loop: ` ${ key }="${ value }"` for each entry
RECURSIVE AttributeText(_, _)
AttributeText(map, k) ==
    IF k > Len(map) THEN <<>>
    ELSE <<" ">> \o map[k].key \o <<"=", "\"">> \o map[k].value \o <<"\"">>
         \o AttributeText(map, k + 1)

\* what build's first callback adds to res
beforeCallback(opts, node, depth) ==
    IF node.tag = TextTag
    THEN indentation(opts, depth) \o MapGet(node.attributes, DataKey)
         \o opts.seperator
    ELSE indentation(opts, depth) \o <<"<">> \o node.tag
         \o AttributeText(node.attributes, 1)
         \o (IF Len(node.children) = 0 THEN <<"/">> ELSE <<>>)
         \o <<">">> \o opts.seperator

\* what build's second callback adds to res
afterCallback(opts, node, depth) ==
    IF node.tag = TextTag THEN <<>>
    ELSE IF Len(node.children) = 0 THEN <<>>
    ELSE indentation(opts, depth) \o <<"<", "/">> \o node.tag \o <<">">>
         \o opts.seperator

RECURSIVE buildEvents(_, _, _)
buildEvents(opts, events, k) ==
    IF k > Len(events) THEN <<>>
    ELSE (IF events[k].cb = "before"
          THEN beforeCallback(opts, events[k].node, events[k].depth)
          ELSE afterCallback(opts, events[k].node, events[k].depth))
         \o buildEvents(opts, events, k + 1)

build(node, opts) == buildEvents(opts, dfs(node, 0), 1)

buildXML(rootNode, opts) == build(rootNode, opts)

----------------------------------------------------------------------------
(* XMLParser: the scanning primitives.  A parser state p is the record of   *)
(* the variables xml .. quote; a primitive returns the cursor it leaves,    *)
(* the string it read and whether it returned (ok) or threw.                *)

lastNode(p) == IF Len(p.nodes) = 0 THEN 0 ELSE p.nodes[Len(p.nodes)]

\* a getChar without the end-of-input check: xml[i++] past the end
getCharUnchecked(p) ==
    [ok |-> TRUE, i |-> p.i + 1,
     val |-> IF p.i < Len(p.xml) THEN <<p.xml[p.i + 1]>> ELSE <<>>]

getChar(p) ==
    IF p.i >= Len(p.xml)
    THEN [ok |-> FALSE, i |-> p.i, val |-> <<>>]
    ELSE [ok |-> TRUE, i |-> p.i + 1, val |-> <<p.xml[p.i + 1]>>]

\* String.prototype.substr(i + offset, size): shorter at the end of the input
peekChars(p, offset, size) ==
    LET from == p.i + offset + 1
        to   == IF p.i + offset + size < Len(p.xml)
                THEN p.i + offset + size ELSE Len(p.xml)
    IN  IF from < 1 \/ from > to THEN <<>> ELSE SubSeq(p.xml, from, to)

assertChar(char, expected) == OneOf(char, expected)

RECURSIVE matchUntilCharFrom(_, _, _, _)
matchUntilCharFrom(p, at, chars, str) ==
    IF at < Len(p.xml)
    THEN LET c == <<p.xml[at + 1]>>
         IN  IF OneOf(c, chars)
             THEN [ok |-> TRUE, i |-> at, val |-> str]
             ELSE matchUntilCharFrom(p, at + 1, chars, str \o c)
    ELSE [ok |-> FALSE, i |-> at, val |-> str]

\* a scan that also consumes the character it stops at
matchUntilCharOver(p, chars) ==
    LET m == matchUntilCharFrom(p, p.i, chars, <<>>)
    IN  IF m.ok THEN [m EXCEPT !.i = m.i + 1] ELSE m

matchUntilChar(p, chars) == matchUntilCharFrom(p, p.i, chars, <<>>)

\* String.prototype.indexOf(str, from): the first match at or after from, or -1
indexOf(text, str, from) ==
    LET hits == {n \in from..(Len(text) - Len(str)) :
                    SubSeq(text, n + 1, n + Len(str)) = str}
    IN  IF hits = {} THEN -1
        ELSE CHOOSE n \in hits : \A m \in hits : n <= m

matchUntilString(p, str) ==
    LET index == indexOf(p.xml, str, p.i)
    IN  IF index = -1
        THEN [ok |-> FALSE, i |-> p.i, val |-> <<>>]
        ELSE [ok |-> TRUE, i |-> index + Len(str),
              val |-> SubSeq(p.xml, p.i + 1, index)]

matchText(p) == matchUntilChar(p, << <<"<">> >>)

CDataEnd == <<"]", "]", ">">>

matchCDataText(p) == matchUntilString(p, CDataEnd)

\* XMLNode.appendText on the node at heap index id: the new text node is
\* created and pushed onto that node's children
\* a text leaf that always goes to the first node made, not to the receiver
appendTextToFirst(h, id, text) ==
    LET new == Len(h) + 1
    IN  Append([h EXCEPT ![1].children = Append(@, new)], TextNode(text))

appendText(h, id, text) ==
    LET new == Len(h) + 1
    IN  Append([h EXCEPT ![id].children = Append(@, new)], TextNode(text))

\* an addNode that forgets to make the new node a child of the innermost one
addNodeDetached(p, t, attrs) ==
    [p EXCEPT !.heap = Append(p.heap, createRaw(t, attrs)),
              !.nodes = Append(p.nodes, Len(p.heap) + 1)]

addNode(p, t, attrs) ==
    LET new == Len(p.heap) + 1
        h   == IF Len(p.nodes) > 0
               THEN [p.heap EXCEPT ![lastNode(p)].children = Append(@, new)]
               ELSE p.heap
    IN  [p EXCEPT !.heap = Append(h, createRaw(t, attrs)),
                  !.nodes = Append(p.nodes, new)]

\* Array.prototype.shift in the place of pop: the stack loses its first element
popNodeShift(p) ==
    IF Len(p.nodes) = 0 THEN p ELSE [p EXCEPT !.nodes = Tail(p.nodes)]

\* Array.prototype.pop: the stack without its last element (unchanged when empty)
popNode(p) ==
    IF Len(p.nodes) = 0 THEN p
    ELSE [p EXCEPT !.nodes = SubSeq(p.nodes, 1, Len(p.nodes) - 1)]

\* the tree below a heap index, as a value
RECURSIVE TreeOf(_, _)
TreeOf(h, id) ==
    [tag |-> h[id].tag, attributes |-> h[id].attributes,
     children |-> [k \in 1..Len(h[id].children) |-> TreeOf(h, h[id].children[k])]]

----------------------------------------------------------------------------
(* XMLParser: parse() and the methods it calls, one definition for each     *)
(* stretch of code between two states of the model.  Each maps a parser     *)
(* state whose pc names the stretch to the state the stretch leaves.  An    *)
(* exception ends the parse: pc "threw", err the error.                     *)

Throw(p, e) == [p EXCEPT !.pc = "threw", !.err = e]

Lt == <<"<">>
Gt == <<">">>
Slash == <<"/">>
CommentStart == <<"!", "-", "-">>
CDataStart == <<"!", "[", "C", "D", "A", "T", "A", "[">>

\* new XMLParser(xml)
NewParser(text) ==
    [xml |-> text, i |-> 0, nodes |-> <<>>, heap |-> <<>>, pc |-> "parseLoop",
     err |-> "none", result |-> 0, tag |-> <<>>, attributes |-> <<>>,
     nextChar |-> <<>>, key |-> <<>>, quote |-> <<>>]

\* parse, lines 148-152: the head of the loop
parseLoop(p) ==
    LET c == getChar(p)
    IN  IF ~c.ok THEN Throw(p, "EOF")
        ELSE IF isWhitespace(c.val) THEN [p EXCEPT !.i = c.i]
        ELSE IF c.val # Lt THEN [p EXCEPT !.i = c.i - 1, !.pc = "parseText"]
        ELSE [p EXCEPT !.i = c.i, !.pc = "parseComment"]

\* parse, line 153: this.lastNode().appendText(this.matchText()); the callee
\* is read off lastNode() before the argument is evaluated
parseText(p) ==
    IF lastNode(p) = 0 THEN Throw(p, "TypeError")
    ELSE LET m == matchText(p)
         IN  IF ~m.ok THEN Throw([p EXCEPT !.i = m.i], "EOF")
             ELSE [p EXCEPT !.i = m.i,
                            !.heap = appendText(p.heap, lastNode(p), m.val),
                            !.pc = "parseTextEnd"]

\* parse, line 154: char = this.getChar()
parseTextEnd(p) ==
    LET c == getChar(p)
    IN  IF ~c.ok THEN Throw(p, "EOF")
        ELSE [p EXCEPT !.i = c.i, !.pc = "parseComment"]

\* parse, lines 157-160: the comment opener
parseComment(p) ==
    IF peekChars(p, 0, 3) = CommentStart
    THEN [p EXCEPT !.i = p.i + 3, !.pc = "matchCommentEnd"]
    ELSE [p EXCEPT !.pc = "parseTag"]

\* a comment scan that looks at the character without consuming it
matchCommentEndStuck(p) ==
    LET c == getChar(p)
    IN  IF ~c.ok THEN Throw(p, "EOF")
        ELSE IF c.val = <<"-">> /\ peekChars([p EXCEPT !.i = c.i], 0, 2) = <<"-", ">">>
        THEN [p EXCEPT !.i = c.i + 2, !.pc = "parseTag"]
        ELSE p

\* matchCommentEnd: one turn of its loop; it returns into line 162
matchCommentEnd(p) ==
    LET c == getChar(p)
    IN  IF ~c.ok THEN Throw(p, "EOF")
        ELSE IF c.val = <<"-">> /\ peekChars([p EXCEPT !.i = c.i], 0, 2) = <<"-", ">">>
        THEN [p EXCEPT !.i = c.i + 2, !.pc = "parseTag"]
        ELSE [p EXCEPT !.i = c.i]

\* parse, lines 162-179: the CDATA opener, else the kind of tag
parseTag(p) ==
    IF peekChars(p, 0, 8) = CDataStart
    THEN [p EXCEPT !.i = p.i + 8, !.pc = "parseCData"]
    ELSE IF peekChars(p, 0, 1) = Slash
    THEN [p EXCEPT !.i = p.i + 1, !.pc = "matchNodeEndTag"]
    ELSE [p EXCEPT !.pc = "matchNodeStartTag"]

\* parse, lines 164-165: this.lastNode().appendText(this.matchCDataText())
parseCData(p) ==
    IF lastNode(p) = 0 THEN Throw(p, "TypeError")
    ELSE LET m == matchCDataText(p)
         IN  IF ~m.ok THEN Throw(p, "EOF")
             ELSE [p EXCEPT !.i = m.i,
                            !.heap = appendText(p.heap, lastNode(p), m.val),
                            !.pc = "parseLoop"]

\* matchNodeEndTag, lines 284-291: one turn of its loop, up to the tag name
matchNodeEndTag(p) ==
    IF isWhitespace(peekChars(p, 0, 1)) THEN [p EXCEPT !.i = p.i + 1]
    ELSE LET m == matchUntilChar(p, whitespace \o <<Gt>>)
         IN  IF ~m.ok THEN Throw([p EXCEPT !.i = m.i], "EOF")
             ELSE [p EXCEPT !.i = m.i, !.tag = m.val,
                            !.pc = "matchNodeEndTagClose"]

\* a closing tag that steps one character too far after its '>'
matchNodeEndTagCloseFar(p) ==
    LET m == matchUntilChar(p, <<Gt>>)
    IN  IF ~m.ok THEN Throw([p EXCEPT !.i = m.i], "EOF")
        ELSE [p EXCEPT !.i = m.i + 2, !.pc = "matchNodeEndTagPop"]

\* matchNodeEndTag, lines 292-293: up to and over the '>'
matchNodeEndTagClose(p) ==
    LET m == matchUntilChar(p, <<Gt>>)
    IN  IF ~m.ok THEN Throw([p EXCEPT !.i = m.i], "EOF")
        ELSE [p EXCEPT !.i = m.i + 1, !.pc = "matchNodeEndTagPop"]

\* a closing tag that pops without comparing the names
matchNodeEndTagPopUnchecked(p) ==
    IF lastNode(p) = 0 THEN Throw(p, "TypeError")
    ELSE LET q == popNode(p)
         IN  IF Len(q.nodes) = 0
             THEN [q EXCEPT !.pc = "returned", !.result = lastNode(p)]
             ELSE [q EXCEPT !.pc = "parseLoop"]

\* matchNodeEndTag, lines 295-299, and parse, lines 174-176
matchNodeEndTagPop(p) ==
    IF lastNode(p) = 0 THEN Throw(p, "TypeError")
    ELSE IF p.tag # p.heap[lastNode(p)].tag THEN Throw(p, "MismatchedTag")
    ELSE LET q == popNode(p)
         IN  IF Len(q.nodes) = 0
             THEN [q EXCEPT !.pc = "returned", !.result = lastNode(p)]
             ELSE [q EXCEPT !.pc = "parseLoop"]

\* matchNodeStartTag, lines 223-236: the tag name and the character after it
matchNodeStartTag(p) ==
    IF peekChars(p, 0, 1) = Slash THEN Throw(p, "UnexpectedClosingTag")
    ELSE LET m == matchUntilChar(p, whitespace \o <<Slash, Gt>>)
         IN  IF ~m.ok THEN Throw([p EXCEPT !.i = m.i], "EOF")
             ELSE LET c == getChar([p EXCEPT !.i = m.i])
                  IN  IF ~c.ok THEN Throw([p EXCEPT !.i = m.i], "EOF")
                      ELSE [p EXCEPT !.i = c.i, !.tag = m.val,
                                     !.nextChar = c.val, !.attributes = <<>>,
                                     !.pc = IF isWhitespace(c.val)
                                            THEN "matchAttributes"
                                            ELSE "matchNodeStartTagAdd"]

\* matchAttributes: one turn of its loop; on return, line 233 reads nextChar
matchAttributes(p) ==
    LET char == peekChars(p, 0, 1)
    IN  IF char = Slash \/ char = Gt
        THEN LET c == getChar(p)
             IN  IF ~c.ok THEN Throw(p, "EOF")
                 ELSE [p EXCEPT !.i = c.i, !.nextChar = c.val,
                                !.pc = "matchNodeStartTagAdd"]
        ELSE IF isWhitespace(char) THEN [p EXCEPT !.i = p.i + 1]
        ELSE [p EXCEPT !.pc = "matchAttributeKey"]

\* matchAttribute, line 269
matchAttributeKey(p) ==
    LET m == matchUntilChar(p, whitespace \o << <<"=">> >>)
    IN  IF ~m.ok THEN Throw([p EXCEPT !.i = m.i], "EOF")
        ELSE [p EXCEPT !.i = m.i, !.key = m.val, !.pc = "matchAttributeEquals"]

\* matchAttribute, lines 270-271
matchAttributeEquals(p) ==
    LET m == matchUntilChar(p, << <<"=">> >>)
    IN  IF ~m.ok THEN Throw([p EXCEPT !.i = m.i], "EOF")
        ELSE [p EXCEPT !.i = m.i + 1, !.pc = "matchAttributeQuote"]

\* matchAttribute, lines 273-275
matchAttributeQuote(p) ==
    LET m == matchUntilChar(p, << <<"\"">>, <<"'">> >>)
    IN  IF ~m.ok THEN Throw([p EXCEPT !.i = m.i], "EOF")
        ELSE [p EXCEPT !.i = m.i + 1,
                       !.quote = peekChars([p EXCEPT !.i = m.i], 0, 1),
                       !.pc = "matchAttributeValue"]

\* matchAttribute, lines 276-279, and matchAttributes, line 264
matchAttributeValue(p) ==
    LET m == matchUntilChar(p, <<p.quote>>)
    IN  IF ~m.ok THEN Throw([p EXCEPT !.i = m.i], "EOF")
        ELSE [p EXCEPT !.i = m.i + 1,
                       !.attributes = MapSet(p.attributes, p.key, m.val),
                       !.pc = "matchAttributes"]

\* matchNodeStartTag, lines 238-245
matchNodeStartTagAdd(p) ==
    LET q == addNode(p, p.tag, p.attributes)
    IN  IF p.nextChar = Slash
        THEN LET c == getChar(q)
             IN  IF ~c.ok THEN Throw(q, "EOF")
                 ELSE IF ~assertChar(c.val, <<Gt>>)
                 THEN Throw([q EXCEPT !.i = c.i], "UnexpectedCharacter")
                 ELSE [popNode(q) EXCEPT !.i = c.i, !.pc = "parseLoop"]
        ELSE IF ~assertChar(p.nextChar, <<Gt>>)
        THEN Throw(q, "UnexpectedCharacter")
        ELSE [q EXCEPT !.pc = "parseLoop"]

Terminal == {"returned", "threw"}

\* the stretch of code a parser state is about to run
Step(p) ==
    CASE p.pc = "parseLoop" -> parseLoop(p)
      [] p.pc = "parseText" -> parseText(p)
      [] p.pc = "parseTextEnd" -> parseTextEnd(p)
      [] p.pc = "parseComment" -> parseComment(p)
      [] p.pc = "matchCommentEnd" -> matchCommentEnd(p)
      [] p.pc = "parseTag" -> parseTag(p)
      [] p.pc = "parseCData" -> parseCData(p)
      [] p.pc = "matchNodeEndTag" -> matchNodeEndTag(p)
      [] p.pc = "matchNodeEndTagClose" -> matchNodeEndTagClose(p)
      [] p.pc = "matchNodeEndTagPop" -> matchNodeEndTagPop(p)
      [] p.pc = "matchNodeStartTag" -> matchNodeStartTag(p)
      [] p.pc = "matchAttributes" -> matchAttributes(p)
      [] p.pc = "matchAttributeKey" -> matchAttributeKey(p)
      [] p.pc = "matchAttributeEquals" -> matchAttributeEquals(p)
      [] p.pc = "matchAttributeQuote" -> matchAttributeQuote(p)
      [] p.pc = "matchAttributeValue" -> matchAttributeValue(p)
      [] p.pc = "matchNodeStartTagAdd" -> matchNodeStartTagAdd(p)
      [] OTHER -> p

\* XMLParser.parse: the stretches in turn until it returns or throws
RECURSIVE parse(_)
parse(p) == IF p.pc \in Terminal THEN p ELSE parse(Step(p))

\* parseXML: the parser's final state; pc "returned" and result the node,
\* or pc "threw" and err the error that propagates to the caller
parseXML(text) == parse(NewParser(text))

----------------------------------------------------------------------------
(* The inputs: the documents the specification and the README give, and     *)
(* every concatenation of at most MaxTokens pieces of markup.               *)

\* spec.md, scenario 1: <a><b>hi</b><c x="1"/></a>
Scenario1 ==
    <<"<", "a", ">", "<", "b", ">", "h", "i", "<", "/", "b", ">", "<", "c",
      " ", "x", "=", "\"", "1", "\"", "/", ">", "<", "/", "a", ">">>

\* spec.md, scenario 2: <a><b></a>
Scenario2 ==
    <<"<", "a", ">", "<", "b", ">", "<", "/", "a", ">">>

\* spec.md, scenario 3: <a>
Scenario3 ==
    <<"<", "a", ">">>

\* spec.md, scenario 4: hello<a/>
Scenario4 ==
    <<"h", "e", "l", "l", "o", "<", "a", "/", ">">>

\* spec.md, scenario 5: <a><!-- comment --><b/></a>
Scenario5 ==
    <<"<", "a", ">", "<", "!", "-", "-", " ", "c", "o", "m", "m", "e", "n",
      "t", " ", "-", "-", ">", "<", "b", "/", ">", "<", "/", "a", ">">>

\* spec.md, scenario 6: <a/>
Scenario6 ==
    <<"<", "a", "/", ">">>

\* the empty pair of the self-closing equivalence: <a></a>
EmptyPair ==
    <<"<", "a", ">", "<", "/", "a", ">">>

\* README.md, goodXML: <document><text>Hello, World</text><symbol data="!"/></document>
GoodXML ==
    <<"<", "d", "o", "c", "u", "m", "e", "n", "t", ">", "<", "t", "e", "x",
      "t", ">", "H", "e", "l", "l", "o", ",", " ", "W", "o", "r", "l", "d",
      "<", "/", "t", "e", "x", "t", ">", "<", "s", "y", "m", "b", "o", "l",
      " ", "d", "a", "t", "a", "=", "\"", "!", "\"", "/", ">", "<", "/",
      "d", "o", "c", "u", "m", "e", "n", "t", ">">>

\* README.md, badXML: </document><text Hello, World><!/></doc>
BadXML ==
    <<"<", "/", "d", "o", "c", "u", "m", "e", "n", "t", ">", "<", "t", "e",
      "x", "t", " ", "H", "e", "l", "l", "o", ",", " ", "W", "o", "r", "l",
      "d", ">", "<", "!", "/", ">", "<", "/", "d", "o", "c", ">">>

\* both quotes, a repeated key, spaces about =, CDATA: <a x='1"2' x="3'4" y = "5"><![CDATA[<b>]]></a >
QuotedXML ==
    <<"<", "a", " ", "x", "=", "'", "1", "\"", "2", "'", " ", "x", "=",
      "\"", "3", "'", "4", "\"", " ", "y", " ", "=", " ", "\"", "5", "\"",
      ">", "<", "!", "[", "C", "D", "A", "T", "A", "[", "<", "b", ">", "]",
      "]", ">", "<", "/", "a", " ", ">">>

\* a closing tag with other characters after its name: <a></a junk>
JunkClose ==
    <<"<", "a", ">", "<", "/", "a", " ", "j", "u", "n", "k", ">">>

\* an element without a name: <></>
EmptyName ==
    <<"<", ">", "<", "/", ">">>

\* a closing tag without a name: <a></>
EmptyCloseName ==
    <<"<", "a", ">", "<", "/", ">">>

Examples ==
    {Scenario1,
     Scenario2,
     Scenario3,
     Scenario4,
     Scenario5,
     Scenario6,
     EmptyPair,
     GoodXML,
     BadXML,
     QuotedXML,
     JunkClose,
     EmptyName,
     EmptyCloseName}

\* <a>
OpenA ==
    <<"<", "a", ">">>

\* </a>
CloseA ==
    <<"<", "/", "a", ">">>

\* <b>
OpenB ==
    <<"<", "b", ">">>

\* </b>
CloseB ==
    <<"<", "/", "b", ">">>

\* <b/>
EmptyB ==
    <<"<", "b", "/", ">">>

\* hi
Hi ==
    <<"h", "i">>

\*  
Space ==
    <<" ">>

\* <!--c-->
Comment ==
    <<"<", "!", "-", "-", "c", "-", "-", ">">>

\* <![CDATA[x]]>
CData ==
    <<"<", "!", "[", "C", "D", "A", "T", "A", "[", "x", "]", "]", ">">>

\* <a
HalfOpenA ==
    <<"<", "a">>

Tokens ==
    {OpenA,
     CloseA,
     OpenB,
     CloseB,
     EmptyB,
     Hi,
     Space,
     Comment,
     CData,
     HalfOpenA}

MaxTokens == 3

RECURSIVE Concat(_, _)
Concat(seq, k) == IF k > Len(seq) THEN <<>> ELSE seq[k] \o Concat(seq, k + 1)

TokenTexts ==
    UNION {{Concat(ts, 1) : ts \in [1..n -> Tokens]} : n \in 0..MaxTokens}

Inputs == Examples \cup TokenTexts

----------------------------------------------------------------------------
(* The state machine: a caller hands a text to parseXML or validateXML,     *)
(* the parser runs stretch by stretch, the entry point returns; a tree      *)
(* parseXML returned is then built with the default options and the text    *)
(* validated.                                                               *)

This ==
    [xml |-> xml, i |-> i, nodes |-> nodes, heap |-> heap, pc |-> pc,
     err |-> err, result |-> result, tag |-> tag, attributes |-> attributes,
     nextChar |-> nextChar, key |-> key, quote |-> quote]

Becomes(q) ==
    /\ xml' = q.xml /\ i' = q.i /\ nodes' = q.nodes /\ heap' = q.heap
    /\ pc' = q.pc /\ err' = q.err /\ result' = q.result /\ tag' = q.tag
    /\ attributes' = q.attributes /\ nextChar' = q.nextChar
    /\ key' = q.key /\ quote' = q.quote

Pending == [kind |-> "pending", bool |-> FALSE, node |-> 0, error |-> "none"]

NoTree == [tag |-> <<>>, attributes |-> <<>>, children |-> <<>>]

\* parseXML, lines 383-386: parse's node, or its error propagating
parseReturn(p) ==
    IF p.pc = "returned"
    THEN [kind |-> "node", bool |-> FALSE, node |-> p.result, error |-> "none"]
    ELSE [kind |-> "error", bool |-> FALSE, node |-> 0, error |-> p.err]

\* a catch clause that lets a TypeError through
validateReturnRethrows(p) ==
    IF p.pc = "returned"
    THEN [kind |-> "boolean", bool |-> TRUE, node |-> 0, error |-> "none"]
    ELSE IF p.err = "TypeError"
    THEN [kind |-> "error", bool |-> FALSE, node |-> 0, error |-> p.err]
    ELSE [kind |-> "boolean", bool |-> FALSE, node |-> 0, error |-> "none"]

\* validateXML, lines 405-410: try { parse; return true } catch { return false }
validateReturn(p) ==
    IF p.pc = "returned"
    THEN [kind |-> "boolean", bool |-> TRUE, node |-> 0, error |-> "none"]
    ELSE [kind |-> "boolean", bool |-> FALSE, node |-> 0, error |-> "none"]

InitParser(q) ==
    /\ xml = q.xml /\ i = q.i /\ nodes = q.nodes /\ heap = q.heap
    /\ pc = q.pc /\ err = q.err /\ result = q.result /\ tag = q.tag
    /\ attributes = q.attributes /\ nextChar = q.nextChar
    /\ key = q.key /\ quote = q.quote

Caller == <<call, ret, root, options, origin>>

Init ==
    /\ \E text \in Inputs : InitParser(NewParser(text))
    /\ call \in {"parseXML", "validateXML"}
    /\ ret = Pending
    /\ root = NoTree
    /\ options = DefaultOptions
    /\ origin = "input"

ParseLoop ==
    /\ pc = "parseLoop"
    /\ Becomes(parseLoop(This))
    /\ UNCHANGED Caller

ParseText ==
    /\ pc = "parseText"
    /\ Becomes(parseText(This))
    /\ UNCHANGED Caller

ParseTextEnd ==
    /\ pc = "parseTextEnd"
    /\ Becomes(parseTextEnd(This))
    /\ UNCHANGED Caller

ParseComment ==
    /\ pc = "parseComment"
    /\ Becomes(parseComment(This))
    /\ UNCHANGED Caller

MatchCommentEnd ==
    /\ pc = "matchCommentEnd"
    /\ Becomes(matchCommentEnd(This))
    /\ UNCHANGED Caller

ParseTag ==
    /\ pc = "parseTag"
    /\ Becomes(parseTag(This))
    /\ UNCHANGED Caller

ParseCData ==
    /\ pc = "parseCData"
    /\ Becomes(parseCData(This))
    /\ UNCHANGED Caller

MatchNodeEndTag ==
    /\ pc = "matchNodeEndTag"
    /\ Becomes(matchNodeEndTag(This))
    /\ UNCHANGED Caller

MatchNodeEndTagClose ==
    /\ pc = "matchNodeEndTagClose"
    /\ Becomes(matchNodeEndTagClose(This))
    /\ UNCHANGED Caller

MatchNodeEndTagPop ==
    /\ pc = "matchNodeEndTagPop"
    /\ Becomes(matchNodeEndTagPop(This))
    /\ UNCHANGED Caller

MatchNodeStartTag ==
    /\ pc = "matchNodeStartTag"
    /\ Becomes(matchNodeStartTag(This))
    /\ UNCHANGED Caller

MatchAttributes ==
    /\ pc = "matchAttributes"
    /\ Becomes(matchAttributes(This))
    /\ UNCHANGED Caller

MatchAttributeKey ==
    /\ pc = "matchAttributeKey"
    /\ Becomes(matchAttributeKey(This))
    /\ UNCHANGED Caller

MatchAttributeEquals ==
    /\ pc = "matchAttributeEquals"
    /\ Becomes(matchAttributeEquals(This))
    /\ UNCHANGED Caller

MatchAttributeQuote ==
    /\ pc = "matchAttributeQuote"
    /\ Becomes(matchAttributeQuote(This))
    /\ UNCHANGED Caller

MatchAttributeValue ==
    /\ pc = "matchAttributeValue"
    /\ Becomes(matchAttributeValue(This))
    /\ UNCHANGED Caller

MatchNodeStartTagAdd ==
    /\ pc = "matchNodeStartTagAdd"
    /\ Becomes(matchNodeStartTagAdd(This))
    /\ UNCHANGED Caller

ParseXMLReturn ==
    /\ call = "parseXML" /\ pc \in Terminal /\ ret = Pending
    /\ ret' = parseReturn(This)
    /\ UNCHANGED <<xml, i, nodes, heap, pc, err, result, tag, attributes,
                   nextChar, key, quote, call, root, options, origin>>

ValidateXMLReturn ==
    /\ call = "validateXML" /\ pc \in Terminal /\ ret = Pending
    /\ ret' = validateReturn(This)
    /\ UNCHANGED <<xml, i, nodes, heap, pc, err, result, tag, attributes,
                   nextChar, key, quote, call, root, options, origin>>

\* validateXML(buildXML(node)) of the node parseXML returned
BuildXML ==
    /\ origin = "input" /\ call = "parseXML" /\ ret.kind = "node"
    /\ LET t == TreeOf(heap, ret.node)
       IN  /\ root' = t
           /\ Becomes(NewParser(buildXML(t, options)))
    /\ call' = "validateXML"
    /\ ret' = Pending
    /\ origin' = "buildXML"
    /\ UNCHANGED options

Next ==

    \/ ParseLoop
    \/ ParseText
    \/ ParseTextEnd
    \/ ParseComment
    \/ MatchCommentEnd
    \/ ParseTag
    \/ ParseCData
    \/ MatchNodeEndTag
    \/ MatchNodeEndTagClose
    \/ MatchNodeEndTagPop
    \/ MatchNodeStartTag
    \/ MatchAttributes
    \/ MatchAttributeKey
    \/ MatchAttributeEquals
    \/ MatchAttributeQuote
    \/ MatchAttributeValue
    \/ MatchNodeStartTagAdd
    \/ ParseXMLReturn
    \/ ValidateXMLReturn
    \/ BuildXML

Spec == Init /\ [][Next]_vars

\* The inputs of the runs followed to their end: the examples and the texts
\* of at most MaxFairTokens pieces.
MaxFairTokens == 2

FairInputs ==
    Examples \cup
    UNION {{Concat(ts, 1) : ts \in [1..n -> Tokens]} : n \in 0..MaxFairTokens}

InitFair ==
    /\ \E text \in FairInputs : InitParser(NewParser(text))
    /\ call \in {"parseXML", "validateXML"}
    /\ ret = Pending
    /\ root = NoTree
    /\ options = DefaultOptions
    /\ origin = "input"

\* The calls are synchronous: a step that can be taken is taken.
SpecFair == InitFair /\ [][Next]_vars /\ WF_vars(Next)

----------------------------------------------------------------------------
(* The trees a caller builds with new XMLNode: every tree of at most        *)
(* MaxNodes nodes over two tag names, two attribute maps and one text, and  *)
(* the trees of the specification's scenario 1 and of the README.           *)

MaxNodes == 3

TagNames == {<<"a">>, <<"b">>}

AttributeMaps == {<<>>, <<[key |-> <<"x">>, value |-> <<"1">>]>>}

Texts == {<<"h", "i">>}

RECURSIVE TreesOfSize(_)
RECURSIVE ForestsOfSize(_)
TreesOfSize(n) ==
    (IF n = 1 THEN {TextNode(text) : text \in Texts} ELSE {})
    \cup {XMLNode(t, attrs, kids) :
            t \in TagNames, attrs \in AttributeMaps, kids \in ForestsOfSize(n - 1)}

ForestsOfSize(n) ==
    IF n = 0 THEN {<<>>}
    ELSE UNION {{<<first>> \o rest :
                    first \in TreesOfSize(k), rest \in ForestsOfSize(n - k)} :
                k \in 1..n}

\* new XMLNode('a', {}, [ new XMLNode('b', {}, [ 'hi' ]), new XMLNode('c', { x: '1' }) ])
Scenario1Tree ==
    XMLNode(<<"a">>, <<>>,
        <<XMLNode(<<"b">>, <<>>, <<TextNode(<<"h", "i">>)>>),
          XMLNode(<<"c">>, <<[key |-> <<"x">>, value |-> <<"1">>]>>, <<>>)>>)

\* README.md, Building XML, with shorter names and texts
ReadmeTree ==
    XMLNode(<<"d">>, <<>>,
        <<XMLNode(<<"t">>, <<>>, <<TextNode(<<"H", ",", " ", "W">>)>>),
          TextNode(<<"!">>)>>)

Trees ==
    {t \in UNION {TreesOfSize(n) : n \in 1..MaxNodes} : t.tag # TextTag}
    \cup {Scenario1Tree, ReadmeTree}

\* the options of the README and of scenario 6, none, no separator and no
\* indentation, and self-closing tags disabled
OptionSets ==
    {DefaultOptions,
     [DefaultOptions EXCEPT !.indentationSize = 2, !.indentationType = "spaces"],
     [DefaultOptions EXCEPT !.indentationSize = 0, !.seperator = <<>>],
     [DefaultOptions EXCEPT !.enableSelfClosingTags = FALSE]}

\* The document that denotes a tree: an element with children as a pair of
\* tags about its children's documents, an element without as an empty pair
\* (pairs) or a self-closing tag, a text as its characters.
RECURSIVE Document(_, _)
RECURSIVE DocumentChildren(_, _, _)
DocumentChildren(kids, k, pairs) ==
    IF k > Len(kids) THEN <<>>
    ELSE Document(kids[k], pairs) \o DocumentChildren(kids, k + 1, pairs)

Document(node, pairs) ==
    IF node.tag = TextTag THEN MapGet(node.attributes, DataKey)
    ELSE IF Len(node.children) = 0 /\ ~pairs
    THEN Lt \o node.tag \o AttributeText(node.attributes, 1) \o Slash \o Gt
    ELSE Lt \o node.tag \o AttributeText(node.attributes, 1) \o Gt
         \o DocumentChildren(node.children, 1, pairs)
         \o Lt \o Slash \o node.tag \o Gt

InitTree ==
    /\ InitParser([NewParser(<<>>) EXCEPT !.pc = "idle"])
    /\ root \in Trees
    /\ options \in OptionSets
    /\ call = "none"
    /\ ret = Pending
    /\ origin = "none"

Parser == <<i, nodes, heap, err, result, tag, attributes, nextChar, key, quote>>

\* buildXML(root, options)
BuildTree ==
    /\ pc = "idle"
    /\ xml' = buildXML(root, options)
    /\ pc' = "built"
    /\ call' = "buildXML"
    /\ origin' = "buildXML"
    /\ UNCHANGED <<Parser, ret, root, options>>

\* the caller writes the tree's document by hand
WriteDocument ==
    /\ pc = "idle"
    /\ \E pairs \in BOOLEAN : xml' = Document(root, pairs)
    /\ pc' = "built"
    /\ call' = "none"
    /\ origin' = "document"
    /\ UNCHANGED <<Parser, ret, root, options>>

\* parseXML(xml), the whole call
ParseBuilt ==
    /\ pc = "built"
    /\ LET q == parseXML(xml)
       IN  Becomes(q) /\ ret' = parseReturn(q)
    /\ call' = "parseXML"
    /\ UNCHANGED <<root, options, origin>>

\* validateXML(xml), the whole call
ValidateBuilt ==
    /\ pc = "built"
    /\ LET q == parseXML(xml)
       IN  Becomes(q) /\ ret' = validateReturn(q)
    /\ call' = "validateXML"
    /\ UNCHANGED <<root, options, origin>>

\* root.innerText()
InnerText ==
    /\ pc = "idle"
    /\ pc' = "read"
    /\ call' = "innerText"
    /\ ret' = [kind |-> "string", bool |-> FALSE, node |-> 0,
               error |-> "none", text |-> innerText(root)]
    /\ UNCHANGED <<xml, Parser, root, options, origin>>

NextTree ==
    BuildTree \/ WriteDocument \/ ParseBuilt \/ ValidateBuilt \/ InnerText

SpecTree == InitTree /\ [][NextTree]_vars

----------------------------------------------------------------------------
(* The claims. *)

Rest == SubSeq(xml, i + 1, Len(xml))

AllWhitespace(str) == \A k \in 1..Len(str) : isWhitespace(<<str[k]>>)

\* C1: validateXML returns a boolean for every input and lets no error out;
\* it returns true exactly when parse of the same string returns a node and
\* false exactly when parse throws, whatever the error.
C1_ValidateIsTotal ==
    (call = "validateXML" /\ ret # Pending) =>
        /\ ret.kind = "boolean"
        /\ ret.bool <=> (parseXML(xml).pc = "returned")
        /\ ~ret.bool <=> (parseXML(xml).pc = "threw")
        /\ ret.bool <=> (parseReturn(parseXML(xml)).kind = "node")

\* validateXML has returned false for an input on which the parser
\* dereferenced the empty open-node stack
C1_Witness ==
    /\ call = "validateXML" /\ origin = "input"
    /\ ret.kind = "boolean" /\ ~ret.bool
    /\ err = "TypeError" /\ nodes = <<>>

\* a tree in which no element has two text children side by side, nor an
\* empty text: the trees a document can tell apart
RECURSIVE Separable(_)
Separable(node) ==
    /\ node.tag = TextTag => MapGet(node.attributes, DataKey) # <<>>
    /\ \A k \in 1..Len(node.children) : Separable(node.children[k])
    /\ \A k \in 1..(Len(node.children) - 1) :
          ~(node.children[k].tag = TextTag /\ node.children[k + 1].tag = TextTag)

\* C2: the document of a tree (a root that is not self-closing, nested pairs
\* or self-closing tags, quoted attributes, character data, no comment)
\* parses to that tree: same tags, attribute maps and child order.
C2_DocumentParsesToItsTree ==
    (/\ origin = "document" /\ call = "parseXML"
     /\ Separable(root)
     /\ (Len(root.children) > 0 \/ xml = Document(root, TRUE))) =>
        /\ ret.kind = "node"
        /\ TreeOf(heap, ret.node) = root

\* scenario 1 has been parsed to root a with children b (text hi) and c (x = 1)
C2_Witness ==
    /\ origin = "document" /\ call = "parseXML"
    /\ xml = Scenario1
    /\ ret.kind = "node"
    /\ TreeOf(heap, ret.node) = Scenario1Tree

\* C3, as claimed: parse returns only when the document is one top-level
\* element and nothing else: the node returned is the first element the
\* document opens, and nothing but whitespace follows its closing tag.
C3_SingleRootOnly ==
    pc = "returned" => (result = 1 /\ AllWhitespace(Rest))

SelfClosing(t) == Lt \o t \o Slash \o Gt

EmptyPairOf(t) == Lt \o t \o Gt \o Lt \o Slash \o t \o Gt

\* C4, as claimed: <t/> and <t></t> both parse, each to the node with tag t,
\* no attributes and no children, as a whole document and nested in <a>.
C4_SelfClosingRootParses ==
    \A t \in TagNames :
        /\ (pc \in Terminal /\ xml \in {SelfClosing(t), EmptyPairOf(t)}) =>
              /\ pc = "returned"
              /\ TreeOf(heap, result) = createRaw(t, <<>>)
        /\ (/\ pc \in Terminal
            /\ xml \in {OpenA \o SelfClosing(t) \o CloseA,
                         OpenA \o EmptyPairOf(t) \o CloseA}) =>
              /\ pc = "returned"
              /\ TreeOf(heap, result) =
                    XMLNode(<<"a">>, <<>>, <<createRaw(t, <<>>)>>)

CommentOpen == <<"<", "!", "-", "-">>
CommentClose == <<"-", "-", ">">>

\* a text with every terminated comment taken out
RECURSIVE StripComments(_)
StripComments(text) ==
    LET from == indexOf(text, CommentOpen, 0)
        to   == IF from = -1 THEN -1 ELSE indexOf(text, CommentClose, from + 4)
    IN  IF to = -1 THEN text
        ELSE SubSeq(text, 1, from)
             \o StripComments(SubSeq(text, to + 4, Len(text)))

\* the document without its comments is one root element from its first
\* character to its last, and the document neither starts nor ends with a
\* comment: every comment lies inside the root
CommentsInsideRoot(text) ==
    LET plain == StripComments(text)
        base  == parseXML(plain)
    IN  /\ plain # text
        /\ indexOf(text, CommentOpen, 0) > 0
        /\ SubSeq(text, Len(text) - 2, Len(text)) # CommentClose
        /\ plain[1] = "<"
        /\ base.pc = "returned" /\ base.result = 1 /\ base.i = Len(plain)

\* C5, as claimed: a document with comments inside its root parses, and to
\* the tree of the document without the comments.
C5_CommentsLeaveNoTrace ==
    (pc \in Terminal /\ origin = "input" /\ CommentsInsideRoot(xml)) =>
        /\ pc = "returned"
        /\ LET base == parseXML(StripComments(xml))
           IN  TreeOf(heap, result) = TreeOf(base.heap, base.result)

\* C6, as claimed: the text buildXML makes of a tree parses back to the tree,
\* each text node's content unchanged.
C6_BuildThenParse ==
    (origin = "buildXML" /\ call = "parseXML" /\ options = DefaultOptions) =>
        /\ ret.kind = "node"
        /\ TreeOf(heap, ret.node) = root

\* C7, as claimed: the text buildXML makes, with the default options, of the
\* tree parseXML returned is valid.
C7_BuiltTextIsValid ==
    (origin = "buildXML" /\ call = "validateXML" /\ ret.kind = "boolean") =>
        ret.bool

\* C8: a closing tag's name and '>' scanned and the stack not empty, a name
\* other than the innermost open node's tag ends the parse with the
\* mismatched-tag error, and the same name pops that node and no other; the
\* scanning of the closing tag leaves the stack alone.
C8_ClosingTagStep ==
    [][/\ pc \in {"matchNodeEndTag", "matchNodeEndTagClose"} => nodes' = nodes
       /\ (pc = "matchNodeEndTagPop" /\ Len(nodes) > 0) =>
             IF tag # heap[nodes[Len(nodes)]].tag
             THEN pc' = "threw" /\ err' = "MismatchedTag" /\ nodes' = nodes
             ELSE /\ pc' \in {"parseLoop", "returned"}
                  /\ nodes' = SubSeq(nodes, 1, Len(nodes) - 1)
                  /\ pc' = "returned" => result' = nodes[Len(nodes)]]_vars

\* <a><b></a> has failed with the mismatched-tag error, a and b still open
C8_Witness ==
    /\ xml = Scenario2
    /\ pc = "threw" /\ err = "MismatchedTag"
    /\ Len(nodes) = 2 /\ tag = <<"a">> /\ heap[nodes[2]].tag = <<"b">>

HasNone(str, chars) == \A k \in 1..Len(str) : ~OneOf(<<str[k]>>, chars)

\* the stretch of code about to run reads on for something the rest of the
\* input does not hold; text and CDATA count whatever the stack (withStack
\* false) or only inside an open element (withStack true)
NeedsMore(withStack) ==
    \/ pc \in {"parseLoop", "parseTextEnd", "matchCommentEnd"} /\ Rest = <<>>
    \/ /\ pc = "parseText" /\ HasNone(Rest, <<Lt>>)
       /\ withStack => nodes # <<>>
    \/ /\ pc = "parseCData" /\ indexOf(Rest, CDataEnd, 0) = -1
       /\ withStack => nodes # <<>>
    \/ pc = "matchNodeEndTag" /\ HasNone(Rest, whitespace \o <<Gt>>)
    \/ pc = "matchNodeEndTagClose" /\ HasNone(Rest, <<Gt>>)
    \/ pc = "matchNodeStartTag" /\ HasNone(Rest, whitespace \o <<Slash, Gt>>)
    \/ pc = "matchAttributeKey" /\ HasNone(Rest, whitespace \o << <<"=">> >>)
    \/ pc = "matchAttributeEquals" /\ HasNone(Rest, << <<"=">> >>)
    \/ pc = "matchAttributeQuote" /\ HasNone(Rest, << <<"\"">>, <<"'">> >>)
    \/ pc = "matchAttributeValue" /\ HasNone(Rest, <<quote>>)
    \/ pc = "matchNodeStartTagAdd" /\ nextChar = Slash /\ Rest = <<>>

\* C9, as claimed: the input running out under an unfinished construct,
\* whatever the stack, ends the parse with the Unexpected-EOF error.
C9_ExhaustedIsEOF ==
    [][NeedsMore(FALSE) => (pc' = "threw" /\ err' = "EOF" /\ result' = 0)]_vars

\* C9, amended: the input running out under an unfinished construct (text and
\* CDATA: inside an open element) ends the parse with the Unexpected-EOF
\* error and no node; text or CDATA met with no element open ends it with a
\* TypeError; a parse that threw has returned no node.
C9_StarvedScanIsEOF ==
    /\ [][NeedsMore(TRUE) => (pc' = "threw" /\ err' = "EOF" /\ result' = 0)]_vars
    /\ [][(pc \in {"parseText", "parseCData"} /\ nodes = <<>>) =>
             (pc' = "threw" /\ err' = "TypeError" /\ result' = 0)]_vars
    /\ [](pc = "threw" => (result = 0 /\ ret.kind # "node"))

\* <a> has failed with the Unexpected-EOF error, a still open, the cursor at
\* the end of the input
C9_Witness ==
    /\ xml = Scenario3
    /\ pc = "threw" /\ err = "EOF"
    /\ Len(nodes) = 1 /\ i = Len(xml) /\ result = 0

\* "/>" occurs in a text
HasSelfCloseMarker(text) == indexOf(text, Slash \o Gt, 0) # -1

\* C10, as claimed: with enableSelfClosingTags false, buildXML writes no
\* self-close marker.
C10_OptionDisablesMarker ==
    (origin = "buildXML" /\ pc = "built" /\ ~options.enableSelfClosingTags) =>
        ~HasSelfCloseMarker(xml)

----------------------------------------------------------------------------
(* C11: the traversal *)

\* the node at the end of a path of child positions below a node
RECURSIVE At(_, _)
At(node, path) ==
    IF path = <<>> THEN node ELSE At(node.children[Head(path)], Tail(path))

\* the number of nodes of a tree
RECURSIVE Size(_)
RECURSIVE SizeFrom(_, _)
SizeFrom(kids, k) ==
    IF k > Len(kids) THEN 0 ELSE Size(kids[k]) + SizeFrom(kids, k + 1)

Size(node) == 1 + SizeFrom(node.children, 1)

\* Reads a sequence of callbacks from its k-th one against a tree. open holds
\* the nodes entered and not yet left, outermost first, each as its path and
\* the number of its children left so far. An entry must be the root (first
\* callback, depth 0) or the next child in order of the innermost open node,
\* one deeper than it; an exit must be of the innermost open node, all of its
\* children left; at the end nothing is open.
RECURSIVE Replays(_, _, _, _)
Replays(events, k, tree, open) ==
    IF k > Len(events) THEN open = <<>>
    ELSE LET e    == events[k]
             n    == Len(open)
             top  == open[n]
             path == IF n = 0 THEN <<>> ELSE Append(top.path, top.left + 1)
         IN  IF e.cb = "before"
             THEN /\ n = 0 => k = 1
                  /\ n > 0 => top.left < Len(At(tree, top.path).children)
                  /\ e.node = At(tree, path)
                  /\ e.depth = Len(path)
                  /\ n > 0 => e.depth = events[k - 1].depth
                                + (IF events[k - 1].cb = "before" THEN 1 ELSE 0)
                  /\ Replays(events, k + 1, tree,
                             Append(open, [path |-> path, left |-> 0]))
             ELSE /\ n > 0
                  /\ e.node = At(tree, top.path)
                  /\ e.depth = Len(top.path)
                  /\ top.left = Len(At(tree, top.path).children)
                  /\ Replays(events, k + 1, tree,
                             IF n = 1 THEN <<>>
                             ELSE [SubSeq(open, 1, n - 1) EXCEPT
                                     ![n - 1].left = open[n - 1].left + 1])

\* C11: the callbacks dfs makes on a tree are one beforeVisit and one
\* afterVisit for every node, the root and the childless nodes included, the
\* root at depth 0 and a child one deeper than its parent; a node's
\* beforeVisit comes before every callback of its descendants and they
\* before its afterVisit, and the children of a node are visited in the
\* order of its children sequence.
C11_DfsIsWellNested ==
    (pc = "built" /\ origin = "buildXML") =>
        LET events == dfs(root, 0)
        IN  /\ Len(events) = 2 * Size(root)
            /\ Replays(events, 1, root, <<>>)

\* buildXML has traversed scenario 1's tree: eight callbacks, the text leaf
\* entered third at depth 2 and left fourth, c entered after b was left
C11_Witness ==
    /\ pc = "built" /\ origin = "buildXML" /\ root = Scenario1Tree
    /\ LET events == dfs(root, 0)
       IN  /\ Len(events) = 8
           /\ events[3] = [cb |-> "before", node |-> TextNode(<<"h", "i">>),
                           depth |-> 2]
           /\ events[4].cb = "after" /\ events[4].node = events[3].node
           /\ events[5] = [cb |-> "after", node |-> root.children[1],
                           depth |-> 1]
           /\ events[6] = [cb |-> "before", node |-> root.children[2],
                           depth |-> 1]
           /\ events[8] = [cb |-> "after", node |-> root, depth |-> 0]

----------------------------------------------------------------------------
(* C12: innerText *)

\* the data of the text leaves among a node's children, one after the other
RECURSIVE ChildText(_, _)
ChildText(kids, k) ==
    IF k > Len(kids) THEN <<>>
    ELSE (IF kids[k].tag = TextTag
          THEN MapGet(kids[k].attributes, DataKey) ELSE <<>>)
         \o ChildText(kids, k + 1)

\* C12, as claimed: innerText() of a node is the concatenation of the data
\* of its direct text-leaf children, in child order, element children
\* ignored and not entered.
C12_InnerTextIsChildText ==
    (call = "innerText" /\ ret.kind = "string") =>
        ret.text = ChildText(root.children, 1)

----------------------------------------------------------------------------
(* C13: termination *)

\* Where a stretch can hand over without moving the cursor, the stretch it
\* hands over to has the lower rank.
Rank(label) ==
    CASE label \in {"parseComment", "matchAttributes", "matchNodeEndTagPop",
                    "matchNodeStartTagAdd"} -> 3
      [] label \in {"parseLoop", "parseTag", "matchAttributeKey",
                    "matchNodeEndTag"} -> 2
      [] label \in Terminal -> 0
      [] OTHER -> 1

\* C13: on every input parse ends, returning a node or raising an error.
\* Every step of the parser, the turns of the top-level loop, of the comment
\* scan, of the attribute loop and of the closing-tag loop among them,
\* either moves the cursor forward, never past the end of the input, or
\* leaves it in place and hands over to a stretch of lower rank: the number
\* of steps is bounded by the length of the input.
C13_ParseTerminates ==
    /\ [][(pc \notin Terminal /\ pc # "idle") =>
            /\ i' <= Len(xml)
            /\ \/ i' > i
               \/ i' = i /\ Rank(pc') < Rank(pc)]_vars
    /\ <>[](pc \in Terminal)

\* the parse of the document with a comment, an attribute list and a closing
\* tag in it has returned, the cursor at the end of the input
C13_Witness ==
    /\ xml \in {Scenario5, QuotedXML}
    /\ pc = "returned" /\ i = Len(xml) /\ nodes = <<>>
    /\ ret.kind # "pending"

----------------------------------------------------------------------------
(* C14: the scanning primitives and the cursor *)

\* one invocation of a primitive: the cursor at the call, the stop characters
\* or the stop string, and what it gave back
Invocation(name, p, stop, res) ==
    [name |-> name, from |-> p.i, stop |-> stop, ok |-> res.ok, to |-> res.i,
     val |-> res.val,
     atStop |-> p.i < Len(p.xml) /\ OneOf(<<p.xml[p.i + 1]>>, stop)]

InvocationOfGetChar(p) == Invocation("getChar", p, <<>>, getChar(p))

InvocationOfMatchUntilChar(p, chars) ==
    Invocation("matchUntilChar", p, chars, matchUntilChar(p, chars))

\* the invocations of getChar, matchUntilChar and matchUntilString that the
\* stretch about to run makes
Invocations ==
    CASE pc \in {"parseLoop", "parseTextEnd", "matchCommentEnd"} ->
            {InvocationOfGetChar(This)}
      [] pc = "parseText" /\ nodes # <<>> ->
            {InvocationOfMatchUntilChar(This, <<Lt>>)}
      [] pc = "parseCData" /\ nodes # <<>> ->
            {Invocation("matchUntilString", This, <<CDataEnd>>,
                        matchUntilString(This, CDataEnd))}
      [] pc = "matchNodeEndTag" /\ ~isWhitespace(peekChars(This, 0, 1)) ->
            {InvocationOfMatchUntilChar(This, whitespace \o <<Gt>>)}
      [] pc = "matchNodeEndTagClose" ->
            {InvocationOfMatchUntilChar(This, <<Gt>>)}
      [] pc = "matchNodeStartTag" /\ peekChars(This, 0, 1) # Slash ->
            LET stop == whitespace \o <<Slash, Gt>>
                m    == matchUntilChar(This, stop)
            IN  {InvocationOfMatchUntilChar(This, stop)}
                \cup (IF m.ok
                      THEN {InvocationOfGetChar([This EXCEPT !.i = m.i])}
                      ELSE {})
      [] pc = "matchAttributes" /\ peekChars(This, 0, 1) \in {Slash, Gt} ->
            {InvocationOfGetChar(This)}
      [] pc = "matchAttributeKey" ->
            {InvocationOfMatchUntilChar(This, whitespace \o << <<"=">> >>)}
      [] pc = "matchAttributeEquals" ->
            {InvocationOfMatchUntilChar(This, << <<"=">> >>)}
      [] pc = "matchAttributeQuote" ->
            {InvocationOfMatchUntilChar(This, << <<"\"">>, <<"'">> >>)}
      [] pc = "matchAttributeValue" ->
            {InvocationOfMatchUntilChar(This, <<quote>>)}
      [] pc = "matchNodeStartTagAdd" /\ nextChar = Slash ->
            {InvocationOfGetChar(This)}
      [] OTHER -> {}

\* C14, as claimed: every invocation of getChar, matchUntilChar or
\* matchUntilString that returns has moved the cursor forward.
C14_PrimitivesAdvance ==
    \A c \in Invocations : c.ok => c.to > c.from

\* C14, amended: getChar returns with the cursor one further and
\* matchUntilString with it past the stop string, both strictly forward;
\* matchUntilChar returns with the cursor moved by the length of its match
\* and standing on a stop character, which leaves the cursor where it was
\* exactly when the character at the cursor at the call is a stop character.
C14_PrimitivesAdvanceUnlessAtStop ==
    \A c \in Invocations : c.ok =>
        CASE c.name = "getChar" -> c.to = c.from + 1
          [] c.name = "matchUntilString" ->
                /\ c.to = c.from + Len(c.val) + Len(c.stop[1])
                /\ c.to > c.from
          [] c.name = "matchUntilChar" ->
                /\ c.to = c.from + Len(c.val)
                /\ c.to < Len(xml) /\ OneOf(<<xml[c.to + 1]>>, c.stop)
                /\ (c.to = c.from) <=> c.atStop

\* in <a></a> the scan for '>' after the closing tag's name is about to
\* return with the cursor where it was, on the '>'
C14_Witness ==
    /\ xml = EmptyPair /\ pc = "matchNodeEndTagClose"
    /\ \E c \in Invocations :
          c.name = "matchUntilChar" /\ c.ok /\ c.to = c.from /\ c.atStop

----------------------------------------------------------------------------
(* C15: what follows the name in a closing tag *)

\* the closing tag's name is scanned and something other than whitespace
\* stands between it and the next '>'
JunkBeforeGt ==
    /\ pc = "matchNodeEndTagClose"
    /\ LET m == matchUntilChar(This, <<Gt>>)
       IN  m.ok /\ ~AllWhitespace(m.val)

\* C15, as claimed: in a closing tag only whitespace may stand between the
\* name and '>'; with any other character there the parse fails, and
\* <a></a junk> is not accepted as closing a.
C15_ClosingTagNeedsGt ==
    /\ [][JunkBeforeGt => pc' = "threw"]_vars
    /\ [](xml = JunkClose => pc # "returned")

----------------------------------------------------------------------------
(* C16: element names *)

\* the nodes of the tree under a node of the heap, the node itself included
RECURSIVE NodesUnder(_, _)
NodesUnder(h, id) ==
    {id} \cup UNION {NodesUnder(h, h[id].children[k]) :
                        k \in 1..Len(h[id].children)}

\* C16, as claimed: every element node of a tree that parse returns has a
\* non-empty tag; <></> and <a></> yield no node with the tag "".
C16_ElementTagsNonEmpty ==
    pc = "returned" =>
        \A id \in NodesUnder(heap, result) : heap[id].tag # <<>>

----------------------------------------------------------------------------
(* C17: where text goes *)

\* the heap after one text leaf with this text was appended to the children
\* of the node top and nothing else was touched
OneLeafAdded(top, text) ==
    LET leaf == Len(heap) + 1
    IN  /\ Len(heap') = leaf
        /\ heap'[leaf] = TextNode(text)
        /\ heap'[top] = [heap[top] EXCEPT !.children = Append(@, leaf)]
        /\ \A id \in 1..Len(heap) : id # top => heap'[id] = heap[id]

\* C17: a run of character data (from the cursor up to the next '<') and the
\* content of a CDATA section (up to the next "]]>") each become one text
\* leaf, appended to the children of the node innermost on the stack at that
\* moment and to no other node, the stack left as it was; with the stack
\* empty, or the run not ended before the input is, the parse fails and no
\* node is touched.
C17_TextGoesToInnermost ==
    [][(pc = "parseText" \/ pc = "parseCData") =>
         (IF nodes = <<>> \/ pc' = "threw"
          THEN pc' = "threw" /\ heap' = heap /\ nodes' = nodes
          ELSE IF pc = "parseText"
          THEN /\ nodes' = nodes /\ pc' = "parseTextEnd"
               /\ i' > i /\ i' < Len(xml) /\ xml[i' + 1] = "<"
               /\ HasNone(SubSeq(xml, i + 1, i'), <<Lt>>)
               /\ OneLeafAdded(nodes[Len(nodes)], SubSeq(xml, i + 1, i'))
          ELSE /\ nodes' = nodes /\ pc' = "parseLoop"
               /\ i' - 3 = indexOf(xml, CDataEnd, i)
               /\ OneLeafAdded(nodes[Len(nodes)], SubSeq(xml, i + 1, i' - 3)))
      ]_vars

\* in scenario 1 the text hi has just become the only child of b, the
\* innermost of the two open elements, and a has b as its only child
C17_Witness ==
    /\ xml = Scenario1 /\ pc = "parseTextEnd" /\ Len(nodes) = 2
    /\ heap[nodes[2]].tag = <<"b">>
    /\ heap[nodes[2]].children = <<Len(heap)>>
    /\ heap[Len(heap)] = TextNode(<<"h", "i">>)
    /\ heap[nodes[1]].children = <<nodes[2]>>

----------------------------------------------------------------------------
(* C18: attribute values *)

\* no key occurs twice in a mapping
UniqueKeys(map) ==
    \A m, n \in 1..Len(map) : map[m].key = map[n].key => m = n

\* C18: an attribute's value is opened by the quote character the scan for a
\* quote stops at, either of the two, and is exactly the characters from
\* there to the next occurrence of that same character, the other quote
\* character among them or not; the tag's mapping then holds that value
\* under the attribute's key, once, the entries of the other keys as before,
\* so that of a key given more than once the last value stays; no mapping of
\* a node holds a key twice.
C18_AttributeValues ==
    /\ [][(pc = "matchAttributeQuote" /\ pc' # "threw") =>
            /\ pc' = "matchAttributeValue"
            /\ quote' = <<xml[i']>>
            /\ quote' \in {<<"\"">>, <<"'">>}]_vars
    /\ [][(pc = "matchAttributeValue" /\ pc' # "threw") =>
            LET value == SubSeq(xml, i + 1, i' - 1)
            IN  /\ pc' = "matchAttributes"
                /\ <<xml[i]>> = quote /\ <<xml[i']>> = quote
                /\ HasNone(value, <<quote>>)
                /\ \E n \in 1..Len(attributes') :
                      attributes'[n] = [key |-> key, value |-> value]
                /\ \A n \in 1..Len(attributes) :
                      attributes[n].key # key =>
                          attributes'[n] = attributes[n]
                /\ Len(attributes') =
                      Len(attributes) +
                      (IF \E n \in 1..Len(attributes) : attributes[n].key = key
                       THEN 0 ELSE 1)]_vars
    /\ [][(pc = "matchNodeStartTagAdd") =>
            /\ Len(heap') = Len(heap) + 1
            /\ heap'[Len(heap')].attributes = attributes]_vars
    /\ [](/\ UniqueKeys(attributes)
          /\ \A id \in 1..Len(heap) : UniqueKeys(heap[id].attributes))

\* <a x='1"2' x="3'4" y = "5">... has been parsed: x, given twice, is there
\* once with the second value, the other quote character inside it
C18_Witness ==
    /\ xml = QuotedXML /\ pc = "returned"
    /\ heap[result].attributes =
          <<[key |-> <<"x">>, value |-> <<"3", "'", "4">>],
            [key |-> <<"y">>, value |-> <<"5">>]>>

----------------------------------------------------------------------------
(* C19: the cursor stays inside the input *)

\* the stretches that end with an adjustment of the cursor that no test of
\* the cursor against the length precedes: i--, i++, i += 2, i += 3, i += 8
Adjusts ==
    \/ pc = "parseLoop" /\ pc' = "parseText"
    \/ pc = "parseComment" /\ pc' = "matchCommentEnd"
    \/ pc = "matchCommentEnd" /\ pc' = "parseTag"
    \/ pc = "parseTag" /\ pc' \in {"parseCData", "matchNodeEndTag"}
    \/ pc = "matchNodeEndTag" /\ pc' = "matchNodeEndTag"
    \/ pc = "matchNodeEndTagClose" /\ pc' = "matchNodeEndTagPop"
    \/ pc = "matchAttributes" /\ pc' = "matchAttributes"
    \/ pc = "matchAttributeEquals" /\ pc' = "matchAttributeQuote"
    \/ pc = "matchAttributeQuote" /\ pc' = "matchAttributeValue"
    \/ pc = "matchAttributeValue" /\ pc' = "matchAttributes"

\* C19: in every state of the parser the cursor is at least 0 and at most
\* the length of the input; so it is where a primitive called inside a
\* stretch leaves it, and after every stretch that ends with an unchecked
\* adjustment of the cursor.
C19_CursorInBounds ==
    /\ [](0 <= i /\ i <= Len(xml))
    /\ [](\A c \in Invocations : 0 <= c.to /\ c.to <= Len(xml))
    /\ [][Adjusts => (0 <= i' /\ i' <= Len(xml'))]_vars

\* <a></a> has been parsed: the i++ over the last '>' left the cursor at the
\* length of the input
C19_Witness ==
    /\ xml = EmptyPair /\ pc = "matchNodeEndTagPop" /\ i = Len(xml)

----------------------------------------------------------------------------
(* C20: the stack of open elements *)

\* the stack is a path: distinct elements of the heap, each but the first
\* the last child of the one before it, the first the child of no node
StackIsPath ==
    /\ \A k \in 1..Len(nodes) :
          /\ nodes[k] \in 1..Len(heap)
          /\ heap[nodes[k]].tag # TextTag
          /\ \A m \in 1..Len(nodes) : nodes[m] = nodes[k] => m = k
    /\ \A k \in 2..Len(nodes) :
          LET kids == heap[nodes[k - 1]].children
          IN  Len(kids) > 0 /\ kids[Len(kids)] = nodes[k]
    /\ Len(nodes) > 0 =>
          \A id \in 1..Len(heap) :
              \A k \in 1..Len(heap[id].children) :
                  heap[id].children[k] # nodes[1]

\* C20: in every state of the parser the stack is a path of the tree under
\* construction, innermost element last, every element but the bottom one
\* the last child of the element below it.  Its depth is the nesting depth:
\* within a parse only a start tag and a closing tag change the stack, a
\* start tag that is not self-closing by pushing the new element, a
\* self-closing one not at all, a closing tag by removing the last element.
C20_StackIsOpenPath ==
    /\ [](pc # "idle" => StackIsPath)
    /\ [][(xml' = xml /\ nodes' # nodes) =>
            pc \in {"matchNodeStartTagAdd", "matchNodeEndTagPop"}]_vars
    /\ [][(pc = "matchNodeStartTagAdd") =>
            /\ Len(heap') = Len(heap) + 1
            /\ heap'[Len(heap')] = createRaw(tag, attributes)
            /\ nodes' = IF pc' = "parseLoop" /\ nextChar = Slash
                        THEN nodes ELSE Append(nodes, Len(heap'))]_vars
    /\ [][(pc = "matchNodeEndTagPop" /\ pc' # "threw") =>
            nodes' = SubSeq(nodes, 1, Len(nodes) - 1)]_vars

\* <a><b><a> has run out with three elements open, each the only child of
\* the one below it
C20_Witness ==
    /\ xml = OpenA \o OpenB \o OpenA
    /\ pc = "threw" /\ err = "EOF" /\ Len(nodes) = 3
    /\ heap[nodes[1]].children = <<nodes[2]>>
    /\ heap[nodes[2]].children = <<nodes[3]>>
    /\ heap[nodes[3]].children = <<>>

====
